---- MODULE Spec2Model ----
(***************************************************************************)
(* A model of package bstree (src/bstree.go): a binary search tree whose   *)
(* public operations are guarded by one sync.RWMutex, called by several    *)
(* goroutines.  Nodes live in an arena: node i has value[i], left[i] and   *)
(* right[i]; the nil pointer is Nil.  Every access to shared memory that   *)
(* Insert and Depth make is one step of the calling goroutine; the locked  *)
(* read operations compute their result in one step while they hold the    *)
(* read lock.                                                              *)
(***************************************************************************)
EXTENDS Integers, Sequences, FiniteSets, TLC

\* Bounds of the model.
MaxVal == 3
NumProcs == 2
MaxSize == 15
MaxFairVal == 2

Vals == 1..MaxVal
Procs == 1..NumProcs

\* The nil pointer, and the result nil of Minimum and Maximum.
Nil == 0

\* type Traversal int32, with the iota constants.
PreOrder == 1
InOrder == 2
PostOrder == 3
LevelOrder == 4
Orders == 0..(LevelOrder + 1)

VARIABLES
  root,         \* tree.root
  value,        \* _Node.value, by node
  left,         \* _Node.left, by node
  right,        \* _Node.right, by node
  size,         \* tree.size
  writer,       \* tree.mutex: the goroutine that has called Lock, or 0
  readerCount,  \* tree.mutex: the number of goroutines holding the read lock
  pc,           \* by goroutine: the place it has reached in its operation
  op,           \* by goroutine: the operation it is running
  arg,          \* by goroutine: the argument of that operation
  cur,          \* by goroutine: the parameter node of doInsert
  tmp,          \* by goroutine: the value of tree.size read by size++
  ret,          \* by goroutine: the results of its operation
  stk,          \* by goroutine: the call stack of doDepth
  snap,         \* by goroutine: the tree when it acquired the lock, and
                \* for Depth the tree when it was called
  called,       \* the values passed to the Insert calls made so far
  distinct,     \* no value has been passed to two Insert calls
  passed,       \* the values passed to the Insert calls that have returned
  okCount,      \* the number of Insert calls that have returned true
  allTrue,      \* no Insert call has returned false
  env,          \* the callers: what they are and the size of the test's tree
  script,       \* the values the test has still to insert
  visitor,      \* by goroutine: the kind of visitor it passed to Traverse
  deepest,      \* the greatest value a Depth call has returned so far
  floor,        \* by goroutine: the value of deepest when it called Depth
  seen          \* by goroutine: the nodes 1..seen[p] are those whose linking
                \* happens before the goroutine's next step

vars == <<root, value, left, right, size, writer, readerCount, pc, op, arg,
          cur, tmp, ret, stk, snap, called, distinct, passed, okCount,
          allTrue, env, script, visitor, deepest, floor, seen>>

treeVars == <<root, value, left, right, size>>
mutexVars == <<writer, readerCount>>
histVars == <<called, distinct, passed, okCount, allTrue>>

----------------------------------------------------------------------------
\* The ordering and the tree as a value.

\* A faulty ordering under which no value is smaller than another.
IntSmaller_Never(v, other) == FALSE

IntSmaller(v, other) == v < other

\* A faulty IntLarger: an equal value counts as larger.
IntLarger_OrEqual(v, other) == v >= other

IntLarger(v, other) == v > other

\* The tree that the variables hold.
Tree == [root |-> root, value |-> value, left |-> left, right |-> right,
         size |-> size]

\* The tree that New returns.
New == [root |-> Nil, value |-> <<>>, left |-> <<>>, right |-> <<>>,
        size |-> 0]

NoRet == [b |-> FALSE, n |-> 0, s |-> <<>>]

\* The order in which doCompleteTree(tree, begin, end) inserts.
RECURSIVE doCompleteTree(_, _)
doCompleteTree(begin, end) ==
  IF begin > end THEN <<>>
  ELSE LET mid == (begin + end) \div 2
       IN <<mid>> \o doCompleteTree(begin, mid - 1)
                  \o doCompleteTree(mid + 1, end)

\* The callers of the tree: goroutines that insert the values 1..count and
\* whose visitors only collect the values they are given, or the one
\* goroutine of the tests that builds CompleteTree(count) and then reads it.
Envs ==
  {[kind |-> "plain", count |-> MaxVal]}
    \cup {[kind |-> "complete", count |-> c] : c \in 0..MaxSize}

\* Callers whose visitors may call tree.Size() themselves.
VisitorEnvs == {[kind |-> "reentrant", count |-> MaxFairVal]}

\* Goroutine p may call a read operation.
MayRead(p) == env.kind = "complete" => (p = 1 /\ script = <<>>)

\* Goroutine p may call Insert(v).
MayInsert(p, v) ==
  IF env.kind = "complete"
    THEN p = 1 /\ script # <<>> /\ v = Head(script)
    ELSE v \in 1..env.count

----------------------------------------------------------------------------
\* The private algorithms that run under the read lock.

\* A faulty doExists: the larger case descends left as well.
RECURSIVE doExists_LeftOnly(_, _, _)
doExists_LeftOnly(t, node, v) ==
  IF node = Nil THEN FALSE
  ELSE IF IntSmaller(v, t.value[node]) THEN doExists_LeftOnly(t, t.left[node], v)
  ELSE IF IntLarger(v, t.value[node]) THEN doExists_LeftOnly(t, t.left[node], v)
  ELSE TRUE

RECURSIVE doExists(_, _, _)
doExists(t, node, v) ==
  IF node = Nil THEN FALSE
  ELSE IF IntSmaller(v, t.value[node]) THEN doExists(t, t.left[node], v)
  ELSE IF IntLarger(v, t.value[node]) THEN doExists(t, t.right[node], v)
  ELSE TRUE

\* A faulty doPreOrder: the right subtree is visited before the left one.
RECURSIVE doPreOrder_RightFirst(_, _)
doPreOrder_RightFirst(t, node) ==
  IF node = Nil THEN <<>>
  ELSE <<t.value[node]>> \o doPreOrder_RightFirst(t, t.right[node])
                         \o doPreOrder_RightFirst(t, t.left[node])

RECURSIVE doPreOrder(_, _)
doPreOrder(t, node) ==
  IF node = Nil THEN <<>>
  ELSE <<t.value[node]>> \o doPreOrder(t, t.left[node])
                         \o doPreOrder(t, t.right[node])

\* A faulty doInOrder: the node is visited before its left subtree.
doInOrder_NodeFirst(t, node) == doPreOrder(t, node)

RECURSIVE doInOrder(_, _)
doInOrder(t, node) ==
  IF node = Nil THEN <<>>
  ELSE doInOrder(t, t.left[node]) \o <<t.value[node]>>
                                  \o doInOrder(t, t.right[node])

RECURSIVE doPostOrder(_, _)
doPostOrder(t, node) ==
  IF node = Nil THEN <<>>
  ELSE doPostOrder(t, t.left[node]) \o doPostOrder(t, t.right[node])
                                    \o <<t.value[node]>>

\* A faulty loop of doLevelOrder: the right child is enqueued first.
RECURSIVE LevelLoop_RightFirst(_, _)
LevelLoop_RightFirst(t, queue) ==
  IF Len(queue) = 0 THEN <<>>
  ELSE LET node == Head(queue)
           q1 == Tail(queue)
           q2 == IF t.right[node] # Nil THEN Append(q1, t.right[node]) ELSE q1
           q3 == IF t.left[node] # Nil THEN Append(q2, t.left[node]) ELSE q2
       IN <<t.value[node]>> \o LevelLoop_RightFirst(t, q3)

\* The loop of doLevelOrder on a queue of nodes.
RECURSIVE LevelLoop(_, _)
LevelLoop(t, queue) ==
  IF Len(queue) = 0 THEN <<>>
  ELSE LET node == Head(queue)
           q1 == Tail(queue)
           q2 == IF t.left[node] # Nil THEN Append(q1, t.left[node]) ELSE q1
           q3 == IF t.right[node] # Nil THEN Append(q2, t.right[node]) ELSE q2
       IN <<t.value[node]>> \o LevelLoop(t, q3)

doLevelOrder(t) ==
  IF t.root = Nil THEN <<>> ELSE LevelLoop(t, <<t.root>>)

\* A faulty switch of Traverse with in-order as its default case.
Traverse_DefaultInOrder(t, traversal) ==
  CASE traversal = PreOrder -> doPreOrder(t, t.root)
    [] traversal = PostOrder -> doPostOrder(t, t.root)
    [] traversal = LevelOrder -> doLevelOrder(t)
    [] OTHER -> doInOrder(t, t.root)

\* The values the visitor receives from Traverse, in order.
Traverse(t, traversal) ==
  CASE traversal = PreOrder -> doPreOrder(t, t.root)
    [] traversal = InOrder -> doInOrder(t, t.root)
    [] traversal = PostOrder -> doPostOrder(t, t.root)
    [] traversal = LevelOrder -> doLevelOrder(t)
    [] OTHER -> <<>>

\* A faulty descent of Minimum: an if in place of the for loop.
LeftMost_OneStep(t, node) ==
  IF t.left[node] # Nil THEN t.left[node] ELSE node

RECURSIVE LeftMost(_, _)
LeftMost(t, node) ==
  IF t.left[node] # Nil THEN LeftMost(t, t.left[node]) ELSE node

RECURSIVE RightMost(_, _)
RightMost(t, node) ==
  IF t.right[node] # Nil THEN RightMost(t, t.right[node]) ELSE node

Minimum(t) ==
  IF t.root = Nil THEN Nil ELSE t.value[LeftMost(t, t.root)]

Maximum(t) ==
  IF t.root = Nil THEN Nil ELSE t.value[RightMost(t, t.root)]

\* Tree t with a new node holding v, as new_Node(value) makes it.
WithNode(t, v) ==
  [t EXCEPT !.value = Append(@, v), !.left = Append(@, Nil),
            !.right = Append(@, Nil)]

\* doInsert(node, value) run without interruption: the tree it leaves and
\* the boolean it returns.
RECURSIVE SeqDoInsert(_, _, _)
SeqDoInsert(t, node, v) ==
  LET n == Len(t.value) + 1
  IN IF node = Nil THEN [t |-> t, b |-> FALSE]
     ELSE IF IntSmaller(v, t.value[node])
       THEN IF t.left[node] = Nil
              THEN [t |-> [WithNode(t, v) EXCEPT !.left[node] = n], b |-> TRUE]
              ELSE SeqDoInsert(t, t.left[node], v)
     ELSE IF IntLarger(v, t.value[node])
       THEN IF t.right[node] = Nil
              THEN [t |-> [WithNode(t, v) EXCEPT !.right[node] = n], b |-> TRUE]
              ELSE SeqDoInsert(t, t.right[node], v)
     ELSE [t |-> t, b |-> FALSE]

\* Insert(value) run without interruption.
SeqInsert(t, v) ==
  IF t.root = Nil
    THEN [t |-> [WithNode(t, v) EXCEPT !.root = Len(t.value) + 1,
                                       !.size = @ + 1],
          b |-> TRUE]
    ELSE LET r == SeqDoInsert(t, t.root, v)
         IN IF r.b THEN [t |-> [r.t EXCEPT !.size = @ + 1], b |-> TRUE]
            ELSE [t |-> r.t, b |-> FALSE]

----------------------------------------------------------------------------
Start(envs) ==
  /\ root = Nil
  /\ value = <<>>
  /\ left = <<>>
  /\ right = <<>>
  /\ size = 0
  /\ writer = 0
  /\ readerCount = 0
  /\ pc = [p \in Procs |-> "idle"]
  /\ op = [p \in Procs |-> "none"]
  /\ arg = [p \in Procs |-> 0]
  /\ cur = [p \in Procs |-> Nil]
  /\ tmp = [p \in Procs |-> 0]
  /\ ret = [p \in Procs |-> NoRet]
  /\ stk = [p \in Procs |-> <<>>]
  /\ snap = [p \in Procs |-> New]
  /\ called = {}
  /\ distinct = TRUE
  /\ passed = {}
  /\ okCount = 0
  /\ allTrue = TRUE
  /\ env \in envs
  /\ script = IF env.kind = "complete" THEN doCompleteTree(1, env.count)
              ELSE <<>>
  /\ visitor = [p \in Procs |-> "none"]
  /\ deepest = 0
  /\ floor = [p \in Procs |-> 0]
  /\ seen = [p \in Procs |-> 0]

Init == Start(Envs)

InitVisitor == Start(VisitorEnvs)

----------------------------------------------------------------------------
\* Insert

CallInsert(p, v) ==
  /\ pc[p] = "idle"
  /\ MayInsert(p, v)
  /\ script' = IF env.kind = "complete" THEN Tail(script) ELSE script
  /\ pc' = [pc EXCEPT ![p] = "lock"]
  /\ op' = [op EXCEPT ![p] = "Insert"]
  /\ arg' = [arg EXCEPT ![p] = v]
  /\ called' = called \cup {v}
  /\ distinct' = (distinct /\ v \notin called)
  /\ UNCHANGED <<treeVars, mutexVars, cur, tmp, ret, stk, snap, passed,
                 okCount, allTrue, env, visitor, deepest, floor, seen>>

\* A faulty Insert: the call of Lock is left out.
InsertLock_Missing(p) ==
  /\ pc[p] = "lock"
  /\ pc' = [pc EXCEPT ![p] = "ins_root"]
  /\ snap' = [snap EXCEPT ![p] = Tree]
  /\ UNCHANGED <<treeVars, mutexVars, op, arg, cur, tmp, ret, stk, histVars,
                 env, script, visitor, deepest, floor, seen>>

\* tree.mutex.Lock(): the writer excludes later writers and later readers,
InsertLock(p) ==
  /\ pc[p] = "lock"
  /\ writer = 0
  /\ writer' = p
  /\ pc' = [pc EXCEPT ![p] = "lockwait"]
  /\ UNCHANGED <<treeVars, readerCount, op, arg, cur, tmp, ret, stk, snap,
                 histVars, env, script, visitor, deepest, floor, seen>>

\* A faulty Lock that does not wait for the readers to release the lock.
InsertLocked_IgnoresReaders(p) ==
  /\ pc[p] = "lockwait"
  /\ pc' = [pc EXCEPT ![p] = "ins_root"]
  /\ snap' = [snap EXCEPT ![p] = Tree]
  /\ seen' = [seen EXCEPT ![p] = Len(value)]
  /\ UNCHANGED <<treeVars, mutexVars, op, arg, cur, tmp, ret, stk, histVars,
                 env, script, visitor, deepest, floor>>

\* and returns once the readers that held the lock have released it.
InsertLocked(p) ==
  /\ pc[p] = "lockwait"
  /\ readerCount = 0
  /\ pc' = [pc EXCEPT ![p] = "ins_root"]
  /\ snap' = [snap EXCEPT ![p] = Tree]
  /\ seen' = [seen EXCEPT ![p] = Len(value)]
  /\ UNCHANGED <<treeVars, mutexVars, op, arg, cur, tmp, ret, stk, histVars,
                 env, script, visitor, deepest, floor>>

\* if tree.root == nil; otherwise the call doInsert(tree.root, value)
InsertReadRoot(p) ==
  /\ pc[p] = "ins_root"
  /\ IF root = Nil
       THEN /\ pc' = [pc EXCEPT ![p] = "ins_setroot"]
            /\ cur' = cur
       ELSE /\ pc' = [pc EXCEPT ![p] = "ins_cmp"]
            /\ cur' = [cur EXCEPT ![p] = root]
  /\ UNCHANGED <<treeVars, mutexVars, op, arg, tmp, ret, stk, snap,
                 histVars, env, script, visitor, deepest, floor, seen>>

\* A faulty Insert: the root case returns true without size++.
InsertSetRoot_NoCount(p) ==
  /\ pc[p] = "ins_setroot"
  /\ value' = Append(value, arg[p])
  /\ left' = Append(left, Nil)
  /\ right' = Append(right, Nil)
  /\ root' = Len(value) + 1
  /\ ret' = [ret EXCEPT ![p].b = TRUE]
  /\ pc' = [pc EXCEPT ![p] = "unlock"]
  /\ seen' = [seen EXCEPT ![p] = Len(value) + 1]
  /\ UNCHANGED <<size, mutexVars, op, arg, cur, tmp, stk, snap, histVars,
                 env, script, visitor, deepest, floor>>

\* tree.root = new_Node(value)
InsertSetRoot(p) ==
  /\ pc[p] = "ins_setroot"
  /\ value' = Append(value, arg[p])
  /\ left' = Append(left, Nil)
  /\ right' = Append(right, Nil)
  /\ root' = Len(value) + 1
  /\ pc' = [pc EXCEPT ![p] = "ins_size"]
  /\ seen' = [seen EXCEPT ![p] = Len(value) + 1]
  /\ UNCHANGED <<size, mutexVars, op, arg, cur, tmp, ret, stk, snap,
                 histVars, env, script, visitor, deepest, floor>>

\* One call of doInsert(node, value) up to its recursive call, its return
\* of false, or its finding of an empty child slot.
doInsert(p) ==
  /\ pc[p] = "ins_cmp"
  /\ LET node == cur[p]
         descend(child, slot) ==
           IF child = Nil
             THEN /\ pc' = [pc EXCEPT ![p] = slot]
                  /\ UNCHANGED <<cur, ret, env, script, visitor, deepest, floor, seen>>
             ELSE /\ cur' = [cur EXCEPT ![p] = child]
                  /\ UNCHANGED <<pc, ret, env, script, visitor, deepest, floor, seen>>
         refuse ==
           /\ ret' = [ret EXCEPT ![p].b = FALSE]
           /\ pc' = [pc EXCEPT ![p] = "unlock"]
           /\ cur' = cur
     IN IF node = Nil THEN refuse
        ELSE IF IntSmaller(arg[p], value[node])
          THEN descend(left[node], "ins_left")
        ELSE IF IntLarger(arg[p], value[node])
          THEN descend(right[node], "ins_right")
        ELSE refuse
  /\ UNCHANGED <<treeVars, mutexVars, op, arg, tmp, stk, snap,
                 histVars, env, script, visitor, deepest, floor, seen>>

\* A faulty doInsert: the smaller case assigns node.right.
InsertLinkLeft_OnRight(p) ==
  /\ pc[p] = "ins_left"
  /\ value' = Append(value, arg[p])
  /\ left' = Append(left, Nil)
  /\ right' = [Append(right, Nil) EXCEPT ![cur[p]] = Len(value) + 1]
  /\ pc' = [pc EXCEPT ![p] = "ins_size"]
  /\ seen' = [seen EXCEPT ![p] = Len(value) + 1]
  /\ UNCHANGED <<root, size, mutexVars, op, arg, cur, tmp, ret, stk, snap,
                 histVars, env, script, visitor, deepest, floor>>

\* node.left = new_Node(value); return true
InsertLinkLeft(p) ==
  /\ pc[p] = "ins_left"
  /\ value' = Append(value, arg[p])
  /\ left' = [Append(left, Nil) EXCEPT ![cur[p]] = Len(value) + 1]
  /\ right' = Append(right, Nil)
  /\ pc' = [pc EXCEPT ![p] = "ins_size"]
  /\ seen' = [seen EXCEPT ![p] = Len(value) + 1]
  /\ UNCHANGED <<root, size, mutexVars, op, arg, cur, tmp, ret, stk, snap,
                 histVars, env, script, visitor, deepest, floor>>

\* A faulty doInsert: the larger case assigns tree.root.right.
InsertLinkRight_AtRoot(p) ==
  /\ pc[p] = "ins_right"
  /\ value' = Append(value, arg[p])
  /\ left' = Append(left, Nil)
  /\ right' = [Append(right, Nil) EXCEPT ![root] = Len(value) + 1]
  /\ pc' = [pc EXCEPT ![p] = "ins_size"]
  /\ seen' = [seen EXCEPT ![p] = Len(value) + 1]
  /\ UNCHANGED <<root, size, mutexVars, op, arg, cur, tmp, ret, stk, snap,
                 histVars, env, script, visitor, deepest, floor>>

\* node.right = new_Node(value); return true
InsertLinkRight(p) ==
  /\ pc[p] = "ins_right"
  /\ value' = Append(value, arg[p])
  /\ left' = Append(left, Nil)
  /\ right' = [Append(right, Nil) EXCEPT ![cur[p]] = Len(value) + 1]
  /\ pc' = [pc EXCEPT ![p] = "ins_size"]
  /\ seen' = [seen EXCEPT ![p] = Len(value) + 1]
  /\ UNCHANGED <<root, size, mutexVars, op, arg, cur, tmp, ret, stk, snap,
                 histVars, env, script, visitor, deepest, floor>>

\* tree.size++ reads the counter,
InsertReadSize(p) ==
  /\ pc[p] = "ins_size"
  /\ tmp' = [tmp EXCEPT ![p] = size]
  /\ pc' = [pc EXCEPT ![p] = "ins_incr"]
  /\ UNCHANGED <<treeVars, mutexVars, op, arg, cur, ret, stk, snap,
                 histVars, env, script, visitor, deepest, floor, seen>>

\* and writes it back; return true
InsertWriteSize(p) ==
  /\ pc[p] = "ins_incr"
  /\ size' = tmp[p] + 1
  /\ ret' = [ret EXCEPT ![p].b = TRUE]
  /\ pc' = [pc EXCEPT ![p] = "unlock"]
  /\ UNCHANGED <<root, value, left, right, mutexVars, op, arg, cur, tmp, stk,
                 snap, histVars, env, script, visitor, deepest, floor, seen>>

\* defer tree.mutex.Unlock(), and the return of Insert
InsertUnlock(p) ==
  /\ pc[p] = "unlock"
  /\ writer' = 0
  /\ passed' = passed \cup {arg[p]}
  /\ okCount' = IF ret[p].b THEN okCount + 1 ELSE okCount
  /\ allTrue' = (allTrue /\ ret[p].b)
  /\ pc' = [pc EXCEPT ![p] = "idle"]
  /\ op' = [op EXCEPT ![p] = "none"]
  /\ arg' = [arg EXCEPT ![p] = 0]
  /\ cur' = [cur EXCEPT ![p] = Nil]
  /\ tmp' = [tmp EXCEPT ![p] = 0]
  /\ ret' = [ret EXCEPT ![p] = NoRet]
  /\ snap' = [snap EXCEPT ![p] = New]
  /\ UNCHANGED <<treeVars, readerCount, stk, called, distinct,
                 env, script, visitor, deepest, floor, seen>>

----------------------------------------------------------------------------
\* The operations that take the read lock.

CallSize(p) ==
  /\ pc[p] = "idle"
  /\ MayRead(p)
  /\ pc' = [pc EXCEPT ![p] = "rlock"]
  /\ op' = [op EXCEPT ![p] = "Size"]
  /\ UNCHANGED <<treeVars, mutexVars, arg, cur, tmp, ret, stk, snap,
                 histVars, env, script, visitor, deepest, floor, seen>>

CallString(p) ==
  /\ pc[p] = "idle"
  /\ MayRead(p)
  /\ pc' = [pc EXCEPT ![p] = "rlock"]
  /\ op' = [op EXCEPT ![p] = "String"]
  /\ UNCHANGED <<treeVars, mutexVars, arg, cur, tmp, ret, stk, snap,
                 histVars, env, script, visitor, deepest, floor, seen>>

\* Traverse(traversal, visitor), where the visitor either only collects
\* the values it is given ("plain") or also calls tree.Size() ("calls").
CallTraverse(p, traversal, vis) ==
  /\ pc[p] = "idle"
  /\ MayRead(p)
  /\ vis = "calls" => env.kind = "reentrant"
  /\ pc' = [pc EXCEPT ![p] = "rlock"]
  /\ op' = [op EXCEPT ![p] = "Traverse"]
  /\ arg' = [arg EXCEPT ![p] = traversal]
  /\ visitor' = [visitor EXCEPT ![p] = vis]
  /\ UNCHANGED <<treeVars, mutexVars, cur, tmp, ret, stk, snap,
                 histVars, env, script, deepest, floor, seen>>

CallExists(p, v) ==
  /\ pc[p] = "idle"
  /\ MayRead(p)
  /\ pc' = [pc EXCEPT ![p] = "rlock"]
  /\ op' = [op EXCEPT ![p] = "Exists"]
  /\ arg' = [arg EXCEPT ![p] = v]
  /\ UNCHANGED <<treeVars, mutexVars, cur, tmp, ret, stk, snap,
                 histVars, env, script, visitor, deepest, floor, seen>>

CallMinimum(p) ==
  /\ pc[p] = "idle"
  /\ MayRead(p)
  /\ pc' = [pc EXCEPT ![p] = "rlock"]
  /\ op' = [op EXCEPT ![p] = "Minimum"]
  /\ UNCHANGED <<treeVars, mutexVars, arg, cur, tmp, ret, stk, snap,
                 histVars, env, script, visitor, deepest, floor, seen>>

CallMaximum(p) ==
  /\ pc[p] = "idle"
  /\ MayRead(p)
  /\ pc' = [pc EXCEPT ![p] = "rlock"]
  /\ op' = [op EXCEPT ![p] = "Maximum"]
  /\ UNCHANGED <<treeVars, mutexVars, arg, cur, tmp, ret, stk, snap,
                 histVars, env, script, visitor, deepest, floor, seen>>

\* A faulty read operation: the call of RLock is left out.
RLock_Missing(p) ==
  /\ pc[p] = "rlock"
  /\ pc' = [pc EXCEPT ![p] = "body"]
  /\ snap' = [snap EXCEPT ![p] = Tree]
  /\ UNCHANGED <<treeVars, mutexVars, op, arg, cur, tmp, ret, stk, histVars,
                 env, script, visitor, deepest, floor, seen>>

\* tree.mutex.RLock(): blocks while a writer holds or awaits the lock.
RLock(p) ==
  /\ pc[p] = "rlock"
  /\ writer = 0
  /\ readerCount' = readerCount + 1
  /\ pc' = [pc EXCEPT ![p] = "body"]
  /\ snap' = [snap EXCEPT ![p] = Tree]
  /\ seen' = [seen EXCEPT ![p] = Len(value)]
  /\ UNCHANGED <<treeVars, writer, op, arg, cur, tmp, ret, stk, histVars,
                 env, script, visitor, deepest, floor>>

\* return tree.size
SizeBody(p) ==
  /\ pc[p] = "body" /\ op[p] = "Size"
  /\ ret' = [ret EXCEPT ![p].n = size]
  /\ pc' = [pc EXCEPT ![p] = "runlock"]
  /\ UNCHANGED <<treeVars, mutexVars, op, arg, cur, tmp, stk, snap,
                 histVars, env, script, visitor, deepest, floor, seen>>

\* fmt.Sprintf("{root: %p | size: %d}", tree.root, tree.size)
StringBody(p) ==
  /\ pc[p] = "body" /\ op[p] = "String"
  /\ ret' = [ret EXCEPT ![p].s = <<root, size>>]
  /\ pc' = [pc EXCEPT ![p] = "runlock"]
  /\ UNCHANGED <<treeVars, mutexVars, op, arg, cur, tmp, stk, snap,
                 histVars, env, script, visitor, deepest, floor, seen>>

\* The switch of Traverse; ret.s collects the values passed to the visitor.
\* With a visitor that calls the tree, each visit is a step of its own.
TraverseBody(p) ==
  /\ pc[p] = "body" /\ op[p] = "Traverse"
  /\ IF visitor[p] = "calls" /\ Traverse(Tree, arg[p]) # <<>>
       THEN /\ pc' = [pc EXCEPT ![p] = "visit"]
            /\ ret' = ret
       ELSE /\ ret' = [ret EXCEPT ![p].s = Traverse(Tree, arg[p])]
            /\ pc' = [pc EXCEPT ![p] = "runlock"]
  /\ UNCHANGED <<treeVars, mutexVars, op, arg, cur, tmp, stk, snap,
                 histVars, env, script, visitor, deepest, floor, seen>>

\* visitor(node.value) for the next node of the traversal, with a visitor
\* that calls tree.Size(): its RLock blocks while a writer holds or awaits
\* the lock, and its RUnlock follows at once.
Visit(p) ==
  /\ pc[p] = "visit"
  /\ writer = 0
  /\ LET seq == Traverse(Tree, arg[p])
         k == Len(ret[p].s) + 1
     IN /\ ret' = [ret EXCEPT ![p].s = Append(@, seq[k])]
        /\ pc' = [pc EXCEPT ![p] = IF k = Len(seq) THEN "runlock"
                                   ELSE "visit"]
  /\ UNCHANGED <<treeVars, mutexVars, op, arg, cur, tmp, stk, snap,
                 histVars, env, script, visitor, deepest, floor, seen>>

\* return tree.doExists(tree.root, value)
ExistsBody(p) ==
  /\ pc[p] = "body" /\ op[p] = "Exists"
  /\ ret' = [ret EXCEPT ![p].b = doExists(Tree, root, arg[p])]
  /\ pc' = [pc EXCEPT ![p] = "runlock"]
  /\ UNCHANGED <<treeVars, mutexVars, op, arg, cur, tmp, stk, snap,
                 histVars, env, script, visitor, deepest, floor, seen>>

\* A faulty Minimum that descends by moving tree.root itself.
MinimumBody_MovesRoot(p) ==
  /\ pc[p] = "body" /\ op[p] = "Minimum"
  /\ ret' = [ret EXCEPT ![p].n = Minimum(Tree)]
  /\ root' = IF root = Nil THEN Nil ELSE LeftMost(Tree, root)
  /\ pc' = [pc EXCEPT ![p] = "runlock"]
  /\ UNCHANGED <<value, left, right, size, mutexVars, op, arg, cur, tmp, stk,
                 snap, histVars, env, script, visitor, deepest, floor, seen>>

MinimumBody(p) ==
  /\ pc[p] = "body" /\ op[p] = "Minimum"
  /\ ret' = [ret EXCEPT ![p].n = Minimum(Tree)]
  /\ pc' = [pc EXCEPT ![p] = "runlock"]
  /\ UNCHANGED <<treeVars, mutexVars, op, arg, cur, tmp, stk, snap,
                 histVars, env, script, visitor, deepest, floor, seen>>

MaximumBody(p) ==
  /\ pc[p] = "body" /\ op[p] = "Maximum"
  /\ ret' = [ret EXCEPT ![p].n = Maximum(Tree)]
  /\ pc' = [pc EXCEPT ![p] = "runlock"]
  /\ UNCHANGED <<treeVars, mutexVars, op, arg, cur, tmp, stk, snap,
                 histVars, env, script, visitor, deepest, floor, seen>>

\* defer tree.mutex.RUnlock(), and the return of the operation
RUnlock(p) ==
  /\ pc[p] = "runlock"
  /\ readerCount' = readerCount - 1
  /\ pc' = [pc EXCEPT ![p] = "idle"]
  /\ op' = [op EXCEPT ![p] = "none"]
  /\ arg' = [arg EXCEPT ![p] = 0]
  /\ ret' = [ret EXCEPT ![p] = NoRet]
  /\ snap' = [snap EXCEPT ![p] = New]
  /\ visitor' = [visitor EXCEPT ![p] = "none"]
  /\ UNCHANGED <<treeVars, writer, cur, tmp, stk, histVars, env, script,
                 deepest, floor, seen>>

----------------------------------------------------------------------------
\* Depth, which takes no lock: every read of tree.root, node.left and
\* node.right is a step of its own, between which the steps of an Insert
\* may fall. Nothing orders the stores of an Insert of another goroutine
\* before these reads but a lock that the reading goroutine has taken
\* since: Lock and RLock are ordered after every earlier Unlock, and a
\* goroutine's own stores are ordered before its later reads.

\* A frame of doDepth(node): the child link it reads next or whose depth it
\* awaits, and the depth of the left subtree once known.
Frame(node) == [node |-> node, at |-> "left", l |-> 0]

\* A faulty return of doDepth: the depth of the right subtree is ignored.
RECURSIVE Unwind_LeftDepth(_, _)
Unwind_LeftDepth(s, d) ==
  IF Len(s) = 0 THEN [stk |-> <<>>, n |-> d]
  ELSE LET k == Len(s)
           f == s[k]
           rest == SubSeq(s, 1, k - 1)
       IN IF f.at = "left"
            THEN [stk |-> Append(rest, [f EXCEPT !.at = "right", !.l = d]),
                  n |-> d]
            ELSE Unwind_LeftDepth(rest, f.l + 1)

\* The call on top of stack s returns d to its caller: a caller that awaited
\* its left subtree goes on to the right one, a caller that awaited its
\* right subtree returns 1 + max(left, right) in its turn.
RECURSIVE Unwind(_, _)
Unwind(s, d) ==
  IF Len(s) = 0 THEN [stk |-> <<>>, n |-> d]
  ELSE LET k == Len(s)
           f == s[k]
           rest == SubSeq(s, 1, k - 1)
       IN IF f.at = "left"
            THEN [stk |-> Append(rest, [f EXCEPT !.at = "right", !.l = d]),
                  n |-> d]
            ELSE Unwind(rest, IF f.l > d THEN f.l + 1 ELSE d + 1)

CallDepth(p) ==
  /\ pc[p] = "idle"
  /\ MayRead(p)
  /\ pc' = [pc EXCEPT ![p] = "dep_root"]
  /\ op' = [op EXCEPT ![p] = "Depth"]
  /\ snap' = [snap EXCEPT ![p] = Tree]
  /\ floor' = [floor EXCEPT ![p] = deepest]
  /\ UNCHANGED <<treeVars, mutexVars, arg, cur, tmp, ret, stk,
                 histVars, env, script, visitor, deepest, seen>>

\* The call doDepth(n) pushed on the stack of p, for the pointer n that a
\* read has given: doDepth(nil) returns 0 at once.
DepthEnter(p, s, n) ==
  LET u == IF n = Nil THEN Unwind(s, 0) ELSE [stk |-> Append(s, Frame(n)), n |-> 0]
  IN /\ stk' = [stk EXCEPT ![p] = u.stk]
     /\ ret' = [ret EXCEPT ![p].n = u.n]
     /\ pc' = [pc EXCEPT ![p] = IF Len(u.stk) = 0 THEN "dep_ret" ELSE "dep_run"]

\* What an unlocked read by goroutine p of a pointer field holding ptr may
\* give: ptr itself, or the nil the field held before its only store, when
\* that store (the linking of node ptr) is not ordered before the read.
RacyLoad(p, ptr) == IF ptr > seen[p] THEN {Nil, ptr} ELSE {ptr}

\* tree.doDepth(tree.root): the read of tree.root
DepthReadRoot(p) ==
  /\ pc[p] = "dep_root"
  /\ \E n \in RacyLoad(p, root) : DepthEnter(p, <<>>, n)
  /\ UNCHANGED <<treeVars, mutexVars, op, arg, cur, tmp, snap, histVars,
                 env, script, visitor, deepest, floor, seen>>

\* The topmost call of doDepth reads node.left, or node.right, and calls
\* doDepth on it.
doDepth(p) ==
  /\ pc[p] = "dep_run"
  /\ LET f == stk[p][Len(stk[p])]
         ptr == IF f.at = "left" THEN left[f.node] ELSE right[f.node]
     IN \E n \in RacyLoad(p, ptr) : DepthEnter(p, stk[p], n)
  /\ UNCHANGED <<treeVars, mutexVars, op, arg, cur, tmp, snap, histVars,
                 env, script, visitor, deepest, floor, seen>>

\* The return of Depth.
DepthReturn(p) ==
  /\ pc[p] = "dep_ret"
  /\ pc' = [pc EXCEPT ![p] = "idle"]
  /\ op' = [op EXCEPT ![p] = "none"]
  /\ ret' = [ret EXCEPT ![p] = NoRet]
  /\ snap' = [snap EXCEPT ![p] = New]
  /\ deepest' = IF ret[p].n > deepest THEN ret[p].n ELSE deepest
  /\ floor' = [floor EXCEPT ![p] = 0]
  /\ UNCHANGED <<treeVars, mutexVars, arg, cur, tmp, stk, histVars, env,
                 script, visitor, seen>>

----------------------------------------------------------------------------
Next ==
  \E p \in Procs :
    \/ \E v \in Vals \cup (1..MaxSize) : CallInsert(p, v)
    \/ InsertLock(p)
    \/ InsertLocked(p)
    \/ InsertReadRoot(p)
    \/ InsertSetRoot(p)
    \/ doInsert(p)
    \/ InsertLinkLeft(p)
    \/ InsertLinkRight(p)
    \/ InsertReadSize(p)
    \/ InsertWriteSize(p)
    \/ InsertUnlock(p)
    \/ CallSize(p)
    \/ CallString(p)
    \/ \E traversal \in Orders : CallTraverse(p, traversal, "plain")
    \/ \E v \in Vals : CallExists(p, v)
    \/ CallMinimum(p)
    \/ CallMaximum(p)
    \/ RLock(p)
    \/ SizeBody(p)
    \/ StringBody(p)
    \/ TraverseBody(p)
    \/ ExistsBody(p)
    \/ MinimumBody(p)
    \/ MaximumBody(p)
    \/ RUnlock(p)
    \/ CallDepth(p)
    \/ DepthReadRoot(p)
    \/ doDepth(p)
    \/ DepthReturn(p)

Spec == Init /\ [][Next]_vars

\* The steps of goroutines whose visitors call the tree.
NextVisitor ==
  \/ Next
  \/ \E p \in Procs :
       \/ \E traversal \in Orders : CallTraverse(p, traversal, "calls")
       \/ Visit(p)

\* The steps goroutine p takes by itself once it has called an operation.
Run(p) ==
  \/ InsertLocked(p) \/ InsertReadRoot(p) \/ InsertSetRoot(p) \/ doInsert(p)
  \/ InsertLinkLeft(p) \/ InsertLinkRight(p) \/ InsertReadSize(p)
  \/ InsertWriteSize(p) \/ InsertUnlock(p)
  \/ SizeBody(p) \/ StringBody(p) \/ TraverseBody(p) \/ ExistsBody(p)
  \/ MinimumBody(p) \/ MaximumBody(p) \/ RUnlock(p)
  \/ DepthReadRoot(p) \/ doDepth(p) \/ DepthReturn(p)

\* The step by which goroutine p acquires the lock it waits for: Lock of
\* Insert, RLock of a reader, or RLock of tree.Size() called by a visitor.
Acquire(p) == InsertLock(p) \/ RLock(p) \/ Visit(p)

\* The Go scheduler runs every runnable goroutine, and sync.RWMutex hands
\* the lock to every goroutine that waits for it: a blocked Lock is served
\* in turn (mutex starvation mode), and a blocked RLock is released when the
\* writer it waits for unlocks.  No call is ever forced.
Fairness ==
  \A p \in Procs : WF_vars(Run(p)) /\ SF_vars(Acquire(p))

FairSpec == InitVisitor /\ [][NextVisitor]_vars /\ Fairness

----------------------------------------------------------------------------
\* What the properties speak of.

\* The nodes reachable from node through left and right links.
RECURSIVE Reach(_, _)
Reach(t, node) ==
  IF node = Nil THEN {}
  ELSE {node} \cup Reach(t, t.left[node]) \cup Reach(t, t.right[node])

\* The number of nodes met by a walk from node through left and right links.
RECURSIVE CountNodes(_, _)
CountNodes(t, node) ==
  IF node = Nil THEN 0
  ELSE 1 + CountNodes(t, t.left[node]) + CountNodes(t, t.right[node])

\* The values stored in the tree.
Stored(t) == {t.value[n] : n \in Reach(t, t.root)}

\* The goroutine is between the return of Lock and its Unlock.
InWriteCS(p) == op[p] = "Insert" /\ pc[p] \notin {"lock", "lockwait"}

\* The goroutine is between the return of RLock and its RUnlock.
InReadCS(p) == pc[p] \in {"body", "visit", "runlock"}

\* The goroutine is inside Depth and has reads of the tree still to make.
InDepth(p) == pc[p] \in {"dep_root", "dep_run"}

\* The Insert call of p has done its work and is about to unlock and return.
InsertReturning(p) == op[p] = "Insert" /\ pc[p] = "unlock"

\* The read operation o of p has computed its result and is about to unlock
\* and return.
Returning(p, o) == op[p] = o /\ pc[p] = "runlock"

\* The empty child slot that a descent for v from node ends at.
RECURSIVE SlotOf(_, _, _)
SlotOf(t, node, v) ==
  IF v < t.value[node]
    THEN IF t.left[node] = Nil THEN <<node, "left">>
         ELSE SlotOf(t, t.left[node], v)
    ELSE IF t.right[node] = Nil THEN <<node, "right">>
         ELSE SlotOf(t, t.right[node], v)

\* Tree t with one new leaf, holding v, added to tree s at the slot of v.
AddsLeaf(s, t, v) ==
  LET n == Len(s.value) + 1
      slot == IF s.root = Nil THEN <<Nil, "root">> ELSE SlotOf(s, s.root, v)
  IN /\ Len(t.value) = n /\ Len(t.left) = n /\ Len(t.right) = n
     /\ t.value[n] = v /\ t.left[n] = Nil /\ t.right[n] = Nil
     /\ t.root = IF s.root = Nil THEN n ELSE s.root
     /\ \A i \in 1..Len(s.value) :
          /\ t.value[i] = s.value[i]
          /\ t.left[i] = IF slot = <<i, "left">> THEN n ELSE s.left[i]
          /\ t.right[i] = IF slot = <<i, "right">> THEN n ELSE s.right[i]

Ascending(seq) == \A i \in 1..(Len(seq) - 1) : seq[i] < seq[i + 1]

\* The places of value v in the sequence of visits.
Places(seq, v) == {i \in 1..Len(seq) : seq[i] = v}

\* The only place of v in seq, when every stored value is visited once.
Pos(seq, v) == CHOOSE i \in 1..Len(seq) : seq[i] = v

\* The nodes below node.
Descendants(t, node) == Reach(t, t.left[node]) \cup Reach(t, t.right[node])

\* The children of node.
Children(t, node) == {t.left[node], t.right[node]} \ {Nil}

\* The number of links from node from down to node n below it.
RECURSIVE Distance(_, _, _)
Distance(t, from, n) ==
  IF from = n THEN 0
  ELSE IF n \in Reach(t, t.left[from]) THEN 1 + Distance(t, t.left[from], n)
  ELSE 1 + Distance(t, t.right[from], n)

\* The number of nodes on the longest path from the root to a leaf.
LongestPath(t) ==
  IF t.root = Nil THEN 0
  ELSE LET far == CHOOSE n \in Reach(t, t.root) :
                    \A m \in Reach(t, t.root) :
                      Distance(t, t.root, m) <= Distance(t, t.root, n)
       IN Distance(t, t.root, far) + 1

\* ceil(log2(n)) for n >= 1: the least k with 2^k >= n.
CeilLog2(n) == CHOOSE k \in 0..n : 2^k >= n /\ \A j \in 0..(k - 1) : 2^j < n

\* Goroutine p is about to return from a Depth during which no Insert
\* has changed the tree, and which is ordered after every earlier Insert.
DepthReturningAlone(p) ==
  pc[p] = "dep_ret" /\ Tree = snap[p] /\ seen[p] = Len(value)

\* The operations that only read the tree.
ReadOps == {"Size", "String", "Exists", "Minimum", "Maximum", "Depth",
            "Traverse"}

\* The step from this state to the next is one of goroutine p.
StepOf(p) ==
  <<pc[p], cur[p], ret[p], stk[p]>>' # <<pc[p], cur[p], ret[p], stk[p]>>

\* Every stored value of t is visited exactly once, and nothing else.
VisitsEachOnce(t, seq) ==
  /\ Len(seq) = Cardinality(Reach(t, t.root))
  /\ \A n \in Reach(t, t.root) : Cardinality(Places(seq, t.value[n])) = 1

\* The caller builds CompleteTree(15), the tree of ExampleTree_Traverse.
ExampleTree == env = [kind |-> "complete", count |-> 15]

Least(S) == CHOOSE x \in S : \A y \in S : x <= y

Greatest(S) == CHOOSE x \in S : \A y \in S : x >= y

----------------------------------------------------------------------------
\* C1: in every state, each node reachable from the root holds a value larger
\* than every value of its left subtree and smaller than every value of its
\* right subtree.
C1_Ordering ==
  \A n \in Reach(Tree, root) :
    /\ \A m \in Reach(Tree, left[n]) : value[m] < value[n]
    /\ \A m \in Reach(Tree, right[n]) : value[m] > value[n]

C1_Witness ==
  /\ root # Nil
  /\ left[root] # Nil
  /\ right[root] # Nil
  /\ \A p \in Procs : pc[p] = "idle"

\* C2: whenever no Insert is between its first write and its last, the size
\* counter is the number of nodes reachable from the root; whenever no Insert
\* holds the lock it is also the number of Insert calls that returned true;
\* and that is the number a Size call returns.
C2_SizeInvariant ==
  /\ (\A p \in Procs : InWriteCS(p) => pc[p] \in {"ins_root", "unlock"})
       => size = CountNodes(Tree, root)
  /\ (\A p \in Procs : ~InWriteCS(p)) => size = okCount
  /\ \A p \in Procs :
       Returning(p, "Size") =>
         /\ ret[p].n = CountNodes(Tree, root)
         /\ ret[p].n = okCount

C2_Witness ==
  \E p \in Procs : Returning(p, "Size") /\ ret[p].n = MaxVal

\* C3: an Insert of a value that the tree did not hold when the call took the
\* lock returns true, has raised the size by one, and has added exactly one
\* leaf, holding the value, as the root of an empty tree and otherwise at the
\* empty slot its descent reaches; every older node keeps its value and its
\* links.
C3_InsertNew ==
  \A p \in Procs :
    (InsertReturning(p) /\ arg[p] \notin Stored(snap[p])) =>
      /\ ret[p].b = TRUE
      /\ size = snap[p].size + 1
      /\ AddsLeaf(snap[p], Tree, arg[p])

C3_Witness ==
  \E p \in Procs :
    /\ InsertReturning(p)
    /\ arg[p] \notin Stored(snap[p])
    /\ snap[p].size = MaxVal - 1
    /\ root # Len(value)
    /\ left[root] # Len(value)
    /\ right[root] # Len(value)

\* C4: an Insert of a value that the tree held when the call took the lock
\* returns false and leaves the size, the root and every node as they were;
\* and Insert returns false exactly when Exists of the value was true.
C4_InsertDuplicate ==
  \A p \in Procs :
    InsertReturning(p) =>
      /\ arg[p] \in Stored(snap[p]) => (ret[p].b = FALSE /\ Tree = snap[p])
      /\ (ret[p].b = FALSE) <=> doExists(snap[p], snap[p].root, arg[p])

C4_Witness ==
  \E p \in Procs :
    /\ InsertReturning(p)
    /\ ret[p].b = FALSE
    /\ arg[p] \in Stored(snap[p])
    /\ snap[p].root # Nil
    /\ snap[p].value[snap[p].root] # arg[p]

\* C5: Exists(v) returns true exactly when v was passed to an Insert call
\* that has returned; on the empty tree it returns false.
C5_Membership ==
  \A p \in Procs :
    Returning(p, "Exists") =>
      /\ ret[p].b = (arg[p] \in passed)
      /\ root = Nil => ret[p].b = FALSE

C5_Witness ==
  /\ \E p \in Procs : Returning(p, "Exists") /\ ret[p].b = TRUE
  /\ \E p \in Procs : Returning(p, "Exists") /\ ret[p].b = FALSE /\ size >= 2
  /\ ~allTrue

\* C6: Traverse(InOrder) calls the visitor Size() times, once for each
\* stored value, in strictly ascending order.
C6_InOrderSorted ==
  \A p \in Procs :
    (Returning(p, "Traverse") /\ arg[p] = InOrder) =>
      /\ Len(ret[p].s) = size
      /\ Ascending(ret[p].s)
      /\ {ret[p].s[i] : i \in 1..Len(ret[p].s)} = Stored(Tree)

C6_Witness ==
  \E p \in Procs :
    /\ Returning(p, "Traverse") /\ arg[p] = InOrder
    /\ Len(ret[p].s) = MaxVal
    /\ value[root] # ret[p].s[1]

\* C7: Minimum returns the least and Maximum the greatest of the values
\* inserted, and both return nil on the empty tree.
C7_MinMax ==
  \A p \in Procs :
    /\ Returning(p, "Minimum") =>
         ret[p].n = IF passed = {} THEN Nil ELSE Least(passed)
    /\ Returning(p, "Maximum") =>
         ret[p].n = IF passed = {} THEN Nil ELSE Greatest(passed)
    /\ (Returning(p, "Minimum") \/ Returning(p, "Maximum")) =>
         (root = Nil => ret[p].n = Nil)

C7_Witness ==
  /\ \E p \in Procs :
       Returning(p, "Minimum") /\ ret[p].n # Nil /\ ret[p].n # value[root]
  /\ \E p \in Procs :
       Returning(p, "Maximum") /\ ret[p].n # Nil /\ ret[p].n # value[root]

\* C8: once every Insert call has returned, if the calls were of pairwise
\* distinct values, then every call returned true, the size is the number of
\* calls, and each value passed is held by exactly one reachable node.
C8_ParallelInsert ==
  ((\A p \in Procs : op[p] # "Insert") /\ distinct) =>
    /\ size = Cardinality(called)
    /\ allTrue
    /\ okCount = Cardinality(called)
    /\ CountNodes(Tree, root) = Cardinality(called)
    /\ \A v \in called :
         Cardinality({n \in Reach(Tree, root) : value[n] = v}) = 1

C8_Witness ==
  /\ \A p \in Procs : pc[p] = "idle"
  /\ distinct
  /\ called = Vals
  /\ size = MaxVal

\* C9: no goroutine is reading the tree inside a public operation while
\* another goroutine's Insert holds the write lock.
C9_AllLocked ==
  \A p, q \in Procs :
    (p # q /\ InWriteCS(q)) => ~(InReadCS(p) \/ InDepth(p))

\* C10: at most one Insert is inside its critical section, and while one is,
\* no read operation is inside its critical section.
C10_Exclusion ==
  /\ Cardinality({p \in Procs : InWriteCS(p)}) <= 1
  /\ (\E q \in Procs : InWriteCS(q)) => (\A p \in Procs : ~InReadCS(p))

C10_Witness ==
  \E q \in Procs :
    /\ InWriteCS(q) /\ pc[q] = "ins_cmp" /\ cur[q] # root
    /\ \E p \in Procs : pc[p] = "rlock"

\* C11 as stated: whatever the goroutines call, visitors that call the tree
\* included, every invoked operation eventually completes.
C11_NoDeadlock ==
  \A p \in Procs : (pc[p] # "idle") ~> (pc[p] = "idle")

\* C12: Traverse(PreOrder) and Traverse(PostOrder) visit every stored value
\* exactly once; pre-order visits a node before all its descendants and the
\* whole left subtree before the right one, post-order visits a node after
\* all its descendants; on the tree built from 1..15 by midpoints they give
\* the sequences of ExampleTree_Traverse.
C12_PrePostOrder ==
  \A p \in Procs :
    LET seq == ret[p].s
        before(m, n) == Pos(seq, value[m]) < Pos(seq, value[n])
    IN /\ (Returning(p, "Traverse") /\ arg[p] = PreOrder) =>
            /\ VisitsEachOnce(Tree, seq)
            /\ \A n \in Reach(Tree, root) :
                 /\ \A d \in Descendants(Tree, n) : before(n, d)
                 /\ \A l \in Reach(Tree, left[n]), r \in Reach(Tree, right[n]) :
                      before(l, r)
            /\ ExampleTree =>
                 seq = <<8, 4, 2, 1, 3, 6, 5, 7, 12, 10, 9, 11, 14, 13, 15>>
       /\ (Returning(p, "Traverse") /\ arg[p] = PostOrder) =>
            /\ VisitsEachOnce(Tree, seq)
            /\ \A n \in Reach(Tree, root) :
                 \A d \in Descendants(Tree, n) : before(d, n)
            /\ ExampleTree =>
                 seq = <<1, 3, 2, 5, 7, 6, 4, 9, 11, 10, 13, 15, 14, 12, 8>>

\* A post-order traversal of the example tree returns, the root last.
C12_Witness ==
  \E p \in Procs :
    /\ ExampleTree
    /\ Returning(p, "Traverse") /\ arg[p] = PostOrder
    /\ Len(ret[p].s) = 15 /\ ret[p].s[15] = value[root]

\* C13: Traverse(LevelOrder) visits every stored value exactly once, in
\* non-decreasing distance from the root, a left child before its sibling,
\* and the children of a node visited earlier before those of a node of the
\* same level visited later; on the empty tree the visitor is never called;
\* the tree built from 1..15 gives the sequence of ExampleTree_Traverse.
C13_LevelOrder ==
  \A p \in Procs :
    LET seq == ret[p].s
        before(m, n) == Pos(seq, value[m]) < Pos(seq, value[n])
        level(n) == Distance(Tree, root, n)
        nodes == Reach(Tree, root)
    IN (Returning(p, "Traverse") /\ arg[p] = LevelOrder) =>
         /\ VisitsEachOnce(Tree, seq)
         /\ root = Nil => seq = <<>>
         /\ \A m \in nodes, n \in nodes : before(m, n) => level(m) <= level(n)
         /\ \A n \in nodes :
              (left[n] # Nil /\ right[n] # Nil) => before(left[n], right[n])
         /\ \A m \in nodes, n \in nodes :
              (level(m) = level(n) /\ before(m, n)) =>
                \A c \in Children(Tree, m), d \in Children(Tree, n) : before(c, d)
         /\ ExampleTree =>
              seq = <<8, 4, 12, 2, 6, 10, 14, 1, 3, 5, 7, 9, 11, 13, 15>>

\* A level-order traversal of the example tree returns, the root first.
C13_Witness ==
  \E p \in Procs :
    /\ ExampleTree
    /\ Returning(p, "Traverse") /\ arg[p] = LevelOrder
    /\ Len(ret[p].s) = 15 /\ ret[p].s[1] = value[root]

C15_Linearizable ==
  \A p \in Procs :
    LET s == snap[p]
    IN /\ InsertReturning(p) =>
            /\ Tree = SeqInsert(s, arg[p]).t
            /\ ret[p].b = SeqInsert(s, arg[p]).b
       /\ InReadCS(p) =>
            /\ Tree = s
            /\ size = CountNodes(Tree, root)
       /\ Returning(p, "Exists") => ret[p].b = doExists(s, s.root, arg[p])
       /\ Returning(p, "Minimum") => ret[p].n = Minimum(s)
       /\ Returning(p, "Maximum") => ret[p].n = Maximum(s)
       /\ Returning(p, "Size") => ret[p].n = s.size
       /\ Returning(p, "String") => ret[p].s = <<s.root, s.size>>
       /\ Returning(p, "Traverse") => ret[p].s = Traverse(s, arg[p])

\* Exists(v) returns false, in a tree of two values, while an Insert(v)
\* called before that return waits for the readers to release the lock.
C15_Witness ==
  \E p \in Procs, q \in Procs :
    /\ Returning(p, "Exists") /\ ret[p].b = FALSE
    /\ op[q] = "Insert" /\ arg[q] = arg[p] /\ pc[q] = "lockwait"
    /\ size >= 2

C17_ReadOnly ==
  [][/\ \A p \in Procs :
          (StepOf(p) /\ (op[p] \in ReadOps \/ op'[p] \in ReadOps)) =>
            treeVars' = treeVars
     /\ treeVars' # treeVars =>
          \E p \in Procs :
            /\ StepOf(p) /\ op[p] = "Insert"
            /\ pc[p] \in {"ins_setroot", "ins_left", "ins_right", "ins_incr"}
    ]_vars

\* Minimum returns a value below the root while an Insert waits for the lock.
C17_Witness ==
  \E p \in Procs, q \in Procs :
    /\ Returning(p, "Minimum") /\ ret[p].n # Nil /\ ret[p].n # value[root]
    /\ Tree = snap[p]
    /\ op[q] = "Insert" /\ pc[q] = "lockwait"

\* C18: Traverse with an order that is none of the four, the zero value
\* included, never calls the visitor, leaves the tree as it is, and returns
\* with the read lock released: the lock counts exactly the readers that
\* are still inside an operation.
C18_UnknownOrder ==
  /\ \A p \in Procs :
       (Returning(p, "Traverse")
          /\ arg[p] \notin {PreOrder, InOrder, PostOrder, LevelOrder}) =>
         /\ ret[p].s = <<>>
         /\ Tree = snap[p]
         /\ readerCount >= 1
  /\ readerCount = Cardinality({q \in Procs : InReadCS(q)})

\* Traverse with the zero value of Traversal returns on a full tree.
C18_Witness ==
  \E p \in Procs :
    /\ Returning(p, "Traverse") /\ arg[p] = 0
    /\ size = MaxVal /\ readerCount = 1

RECURSIVE SortedSeq(_)
SortedSeq(S) ==
  IF S = {} THEN <<>> ELSE <<Least(S)>> \o SortedSeq(S \ {Least(S)})

\* No Insert holds the write lock.
Quiescent == \A q \in Procs : ~InWriteCS(q)

\* C20: what Size, Minimum, Maximum, Exists and the in-order traversal give
\* depends only on which values have been inserted, not on the order of
\* the insertions, on repetitions, or on the shape they gave the tree.
C20_OrderIndependent ==
  Quiescent =>
    /\ size = Cardinality(passed)
    /\ Minimum(Tree) = IF passed = {} THEN Nil ELSE Least(passed)
    /\ Maximum(Tree) = IF passed = {} THEN Nil ELSE Greatest(passed)
    /\ \A v \in Vals \cup (1..MaxSize) :
         doExists(Tree, root, v) = (v \in passed)
    /\ doInOrder(Tree, root) = SortedSeq(passed)

\* Concurrent callers have inserted every value, some more than once, in an
\* order that is neither ascending nor descending.
C20_Witness ==
  /\ Quiescent
  /\ env.kind = "plain"
  /\ passed = Vals /\ ~allTrue
  /\ value[root] = MaxVal /\ left[root] # Nil /\ right[left[root]] # Nil

====
